---- MODULE Spec2Model ----
(***************************************************************************)
(* Agent registry, session/turn store and turn execution controller of     *)
(* llama_stack/providers/inline/agents/meta_reference/agents.py over the   *)
(* key-value backends of llama_stack/providers/utils/kvstore.              *)
(*                                                                         *)
(* Strings are sequences of one-character strings, so that prefix tests,   *)
(* slicing, counting of ':' and lexicographic comparison are computed as   *)
(* Python and SQLite compute them.                                         *)
(***************************************************************************)
EXTENDS Integers, Sequences, FiniteSets, TLC

(* ------------------------------ bounds --------------------------------- *)
MaxAgents == 2
MaxSessions == 2
MaxTurns == 2
MaxSteps == 1
MaxTime == 1
MaxKeys == 3
MaxDrift == 1
MaxCalls == 2

(* ------------------------------ strings -------------------------------- *)
\* The characters in use, in ascending code-point order.
Alphabet ==
  << "%", ",", "1", "2", "3", "4", ":", "A", "C", "P", "T", "[", "]", "_",
     "a", "c", "d", "e", "f", "g", "i", "n", "o", "r", "s", "t", "{", "}", "~" >>

Ord(c) == CHOOSE i \in 1..Len(Alphabet) : Alphabet[i] = c

Min(a, b) == IF a <= b THEN a ELSE b

\* s < t from position i on, the earlier positions being equal
RECURSIVE StrLtFrom(_, _, _)
StrLtFrom(s, t, i) ==
  IF i > Len(t) THEN FALSE
  ELSE IF i > Len(s) THEN TRUE
  ELSE IF s[i] = t[i] THEN StrLtFrom(s, t, i + 1)
  ELSE Ord(s[i]) < Ord(t[i])

\* s < t in the code-point order of Python str comparison and of SQLite's
\* BINARY collation.
StrLt(s, t) == StrLtFrom(s, t, 1)

StrLe(s, t) == s = t \/ StrLt(s, t)

\* str.startswith
StartsWith(s, p) == Len(s) >= Len(p) /\ SubSeq(s, 1, Len(p)) = p

\* str.count of a single character
Count(s, c) == Cardinality({i \in 1..Len(s) : s[i] = c})

\* s[n:]
DropFirst(s, n) == SubSeq(s, n + 1, Len(s))

\* Python None; no string is equal to it.
None == << "None" >>

\* Python truthiness of an Optional[str] / Optional[list]
Falsy(v) == v = None \/ v = << >>

Digits == << "1", "2", "3", "4" >>

\* uuid.uuid4(): identifiers are strings of one fixed length.
IdString(n) == << Digits[n] >>
AgentIdSet == { IdString(n) : n \in 1..MaxAgents }
SessionIdSet == { IdString(n) : n \in 1..MaxSessions }
TurnIdSet == { IdString(n) : n \in 1..MaxTurns }

Times == 1..MaxTime

(* ------------------------------ keys ----------------------------------- *)
AgentKey(agent_id) == << "a", "g", "e", "n", "t", ":" >> \o agent_id
CreatedAtKey(agent_id) ==
  AgentKey(agent_id) \o << ":", "c", "r", "e", "a", "t", "e", "d", "_", "a", "t" >>
AgentIdsKey == << "a", "g", "e", "n", "t", "_", "i", "d", "s" >>
SessionKey(agent_id, session_id) ==
  << "s", "e", "s", "s", "i", "o", "n", ":" >> \o agent_id \o << ":" >> \o session_id
TurnKey(agent_id, session_id, turn_id) ==
  SessionKey(agent_id, session_id) \o << ":" >> \o turn_id

(* --------------------------- serialisation ----------------------------- *)
Models == { "A" }
AgentConfigs == [ model : Models, enable_session_persistence : BOOLEAN ]

BoolChar(b) == IF b THEN "t" ELSE "f"

\* AgentConfig.model_dump_json
ConfigDumpJson(c) ==
  << "{", c.model, BoolChar(c.enable_session_persistence), "}" >>

\* The outcome of a parse: the value, or the exception the parser raises.
Parsed(v) == [ ok |-> TRUE, val |-> v ]
ParseError == [ ok |-> FALSE, val |-> << >> ]

\* AgentConfig(**json.loads(s))
ConfigLoads(s) ==
  IF /\ Len(s) = 4
     /\ s[1] = "{"
     /\ s[2] \in Models
     /\ s[3] \in { "t", "f" }
     /\ s[4] = "}"
  THEN Parsed([ model |-> s[2], enable_session_persistence |-> (s[3] = "t") ])
  ELSE ParseError

\* datetime.isoformat
IsoFormat(t) == << "T", Digits[t] >>

\* datetime.fromisoformat
FromIsoFormat(s) ==
  IF Len(s) = 2 /\ s[1] = "T" /\ \E t \in 1..Len(Digits) : Digits[t] = s[2]
  THEN Parsed(CHOOSE t \in 1..Len(Digits) : Digits[t] = s[2])
  ELSE ParseError

RECURSIVE JoinIds(_)
JoinIds(ids) ==
  IF ids = << >> THEN << >>
  ELSE IF Len(ids) = 1 THEN ids[1]
  ELSE ids[1] \o << "," >> \o JoinIds(Tail(ids))

\* json.dumps of a list of identifiers
DumpIds(ids) == << "[" >> \o JoinIds(ids) \o << "]" >>

\* The pieces of s between its commas, read from position i on; the piece
\* being read begins at position first
RECURSIVE SplitFrom(_, _, _)
SplitFrom(s, first, i) ==
  IF i > Len(s) THEN << SubSeq(s, first, Len(s)) >>
  ELSE IF s[i] = "," THEN << SubSeq(s, first, i - 1) >> \o SplitFrom(s, i + 1, i + 1)
  ELSE SplitFrom(s, first, i + 1)

SplitComma(s) == SplitFrom(s, 1, 1)

\* json.loads of the identifier list
LoadIds(s) ==
  IF Len(s) >= 2 /\ s[1] = "[" /\ s[Len(s)] = "]"
  THEN LET inner == SubSeq(s, 2, Len(s) - 1)
           parts == SplitComma(inner)
       IN  IF inner = << >> THEN Parsed(<< >>)
           ELSE IF \A i \in 1..Len(parts) : parts[i] # << >>
                THEN Parsed(parts)
                ELSE ParseError
  ELSE ParseError

SessionNames == { "n" }

\* AgentSessionInfo.model_dump_json
SessionInfoDumpJson(info) ==
  << "{" >> \o info.session_id
  \o << ",", info.session_name, ",", Digits[info.started_at], "}" >>

\* AgentSessionInfo(**json.loads(s))
SessionInfoLoads(s) ==
  IF Len(s) >= 2 /\ s[1] = "{" /\ s[Len(s)] = "}"
  THEN LET parts == SplitComma(SubSeq(s, 2, Len(s) - 1))
       IN  IF /\ Len(parts) = 3
              /\ parts[1] # << >>
              /\ Len(parts[2]) = 1 /\ parts[2][1] \in SessionNames
              /\ FromIsoFormat(<< "T" >> \o parts[3]).ok
           THEN Parsed([ session_id |-> parts[1], session_name |-> parts[2][1],
                         started_at |-> FromIsoFormat(<< "T" >> \o parts[3]).val ])
           ELSE ParseError
  ELSE ParseError

\* Turn status: in progress, awaiting external input, completed.
TurnStatuses == { "P", "A", "C" }
\* Step kinds: an inference step, a tool execution step.
StepKinds == { "i", "t" }

\* Turn.model_dump_json
TurnDumpJson(turn) ==
  << "{" >> \o turn.turn_id \o << ",", turn.status, "," >> \o turn.steps \o << "}" >>

\* Turn(**json.loads(s))
TurnLoads(s) ==
  IF Len(s) >= 2 /\ s[1] = "{" /\ s[Len(s)] = "}"
  THEN LET parts == SplitComma(SubSeq(s, 2, Len(s) - 1))
       IN  IF /\ Len(parts) = 3
              /\ parts[1] # << >>
              /\ Len(parts[2]) = 1 /\ parts[2][1] \in TurnStatuses
              /\ \A i \in 1..Len(parts[3]) : parts[3][i] \in StepKinds
           THEN Parsed([ turn_id |-> parts[1], status |-> parts[2][1],
                         steps |-> parts[3] ])
           ELSE ParseError
  ELSE ParseError

(* ------------------------------ backends ------------------------------- *)
\* A store is the sequence of its rows [key, value]: the insertion order of
\* the dict of InmemoryKVStoreImpl, the rowid order of the table of
\* SqliteKVStoreImpl.
Row(k, v) == [ key |-> k, value |-> v ]

HasKey(store, k) == \E i \in 1..Len(store) : store[i].key = k

\* InmemoryKVStoreImpl.get / SqliteKVStoreImpl.get
StoreGet(store, k) ==
  IF HasKey(store, k)
  THEN store[CHOOSE i \in 1..Len(store) : store[i].key = k].value
  ELSE None

\* InmemoryKVStoreImpl.delete / SqliteKVStoreImpl.delete
StoreDelete(store, k) ==
  LET Keep(r) == r.key # k IN SelectSeq(store, Keep)

\* InmemoryKVStoreImpl.set: a dict assignment keeps the position of a key
\* that is already present.
InmemorySet(store, k, v) ==
  IF HasKey(store, k)
  THEN [ i \in 1..Len(store) |-> IF store[i].key = k THEN Row(k, v) ELSE store[i] ]
  ELSE Append(store, Row(k, v))

\* SqliteKVStoreImpl.set: INSERT OR REPLACE removes the conflicting row and
\* inserts a new one, which takes the largest rowid.
SqliteSet(store, k, v) == Append(StoreDelete(store, k), Row(k, v))

StoreSet(kind, store, k, v) ==
  IF kind = "inmemory" THEN InmemorySet(store, k, v) ELSE SqliteSet(store, k, v)

RowValues(rows) == [ i \in 1..Len(rows) |-> rows[i].value ]

\* InmemoryKVStoreImpl.range
InmemoryRange(store, start_key, end_key) ==
  LET Keep(r) == StrLe(start_key, r.key) /\ StrLt(r.key, end_key)
  IN  RowValues(SelectSeq(store, Keep))

RECURSIVE InsertByKey(_, _)
InsertByKey(sorted, r) ==
  IF sorted = << >> THEN << r >>
  ELSE IF StrLt(r.key, sorted[1].key) THEN << r >> \o sorted
  ELSE << sorted[1] >> \o InsertByKey(Tail(sorted), r)

RECURSIVE SortByKey(_)
SortByKey(rows) ==
  IF rows = << >> THEN << >>
  ELSE InsertByKey(SortByKey(Tail(rows)), rows[1])

\* A SELECT without ORDER BY returns its rows in the order of the access
\* path the engine takes: the primary-key index or the table itself.
QueryPlans == { "index", "table" }
ScanOrder(rows, plan) == IF plan = "index" THEN SortByKey(rows) ELSE rows

\* SqliteKVStoreImpl.range
SqliteRange(store, start_key, end_key, plan) ==
  LET Keep(r) == StrLe(start_key, r.key) /\ StrLe(r.key, end_key)
  IN  RowValues(ScanOrder(SelectSeq(store, Keep), plan))

StoreRange(kind, store, start_key, end_key, plan) ==
  IF kind = "inmemory" THEN InmemoryRange(store, start_key, end_key)
  ELSE SqliteRange(store, start_key, end_key, plan)

RowKeys(rows) == [ i \in 1..Len(rows) |-> rows[i].key ]

\* The optional prefix of list_keys: None, or a string
NoPrefix == [ given |-> FALSE, prefix |-> << >> ]
Prefix(p) == [ given |-> TRUE, prefix |-> p ]

\* InmemoryKVStoreImpl.list_keys
InmemoryListKeys(store, prefix) ==
  IF ~prefix.given THEN RowKeys(store)
  ELSE LET Keep(r) == StartsWith(r.key, prefix.prefix)
       IN  RowKeys(SelectSeq(store, Keep))

\* The letters LIKE folds: it is case-insensitive on ASCII letters.
UpperCase == << "A", "C", "P", "T" >>
LowerCase == << "a", "c", "p", "t" >>
Fold(c) ==
  IF \E i \in 1..Len(UpperCase) : UpperCase[i] = c
  THEN LowerCase[CHOOSE i \in 1..Len(UpperCase) : UpperCase[i] = c]
  ELSE c

\* s LIKE p: '%' matches any run of characters, '_' any one character
RECURSIVE Like(_, _)
Like(s, p) ==
  IF p = << >> THEN s = << >>
  ELSE IF p[1] = "%"
       THEN Like(s, Tail(p)) \/ (s # << >> /\ Like(Tail(s), p))
  ELSE /\ s # << >>
       /\ p[1] = "_" \/ Fold(p[1]) = Fold(s[1])
       /\ Like(Tail(s), Tail(p))

\* SqliteKVStoreImpl.list_keys
SqliteListKeys(store, prefix, plan) ==
  IF ~prefix.given THEN RowKeys(ScanOrder(store, plan))
  ELSE LET Keep(r) == Like(r.key, prefix.prefix \o << "%" >>)
       IN  RowKeys(ScanOrder(SelectSeq(store, Keep), plan))

StoreListKeys(kind, store, prefix, plan) ==
  IF kind = "inmemory" THEN InmemoryListKeys(store, prefix)
  ELSE SqliteListKeys(store, prefix, plan)

\* The members of KVStoreType that kvstore_impl compares the type with
KVStoreTypes == { "redis", "sqlite", "postgres", "mongodb" }

\* The type a configuration carries: a member of KVStoreType, the tag of an
\* in-memory store, or some other tag
ConfigTypes == KVStoreTypes \cup { "memory", "other" }

\* kvstore_impl: the initialised store of the class the type selects, or the
\* error raised
kvstore_impl(type) ==
  IF type = "redis" THEN [ error |-> "none", impl |-> "redis", initialized |-> TRUE ]
  ELSE IF type = "sqlite" THEN [ error |-> "none", impl |-> "sqlite", initialized |-> TRUE ]
  ELSE IF type = "postgres" THEN [ error |-> "none", impl |-> "postgres", initialized |-> TRUE ]
  ELSE IF type = "mongodb" THEN [ error |-> "none", impl |-> "mongodb", initialized |-> TRUE ]
  ELSE [ error |-> "ValueError" ]

(* --------------------------- agent registry ---------------------------- *)
VARIABLES
  backend,            \* the class of self.persistence_store
  persistence_store,  \* self.persistence_store
  in_memory_store,    \* self.in_memory_store
  agent_ids,          \* self.agent_ids
  generator,          \* the turn event generator the caller holds
  response,           \* the last call and what it returned or raised
  issued,             \* the identifiers uuid4 has returned so far
  configs,            \* history: the configuration each created agent was given
  deleted,            \* history: the agents delete_agent has completed for
  turn_log,           \* history: the turns in the order they were created
  in_flight           \* the registry calls that are suspended at an await

Agent(agent_id, agent_config, created_at) ==
  [ agent_id |-> agent_id, agent_config |-> agent_config, created_at |-> created_at ]

\* The creation time an Agent is given: the stored one, or now when it is
\* missing or does not parse.
LoadCreatedAt(store, agent_id, now) ==
  LET created_at_json == StoreGet(store, CreatedAtKey(agent_id))
  IN  IF Falsy(created_at_json) THEN now
      ELSE IF FromIsoFormat(created_at_json).ok
           THEN FromIsoFormat(created_at_json).val
           ELSE now

\* create_agent with the configuration written under the timestamp's key
CreateAgentEffect_WrongKey(kind, store, ids, agent_id, agent_config, created_at) ==
  LET s1 == StoreSet(kind, store, CreatedAtKey(agent_id), ConfigDumpJson(agent_config))
      s2 == StoreSet(kind, s1, CreatedAtKey(agent_id), IsoFormat(created_at))
      ids2 == Append(ids, agent_id)
  IN  [ store |-> StoreSet(kind, s2, AgentIdsKey, DumpIds(ids2)), agent_ids |-> ids2 ]

\* create_agent: the store and the tracked list after the call
CreateAgentEffect(kind, store, ids, agent_id, agent_config, created_at) ==
  LET s1 == StoreSet(kind, store, AgentKey(agent_id), ConfigDumpJson(agent_config))
      s2 == StoreSet(kind, s1, CreatedAtKey(agent_id), IsoFormat(created_at))
      ids2 == Append(ids, agent_id)
  IN  [ store |-> StoreSet(kind, s2, AgentIdsKey, DumpIds(ids2)), agent_ids |-> ids2 ]

\* get_agent that lets a timestamp that does not parse fail the call
GetAgentResult_StrictTime(store, agent_id, now) ==
  LET agent_config_json == StoreGet(store, AgentKey(agent_id))
      created_at_json == StoreGet(store, CreatedAtKey(agent_id))
  IN  IF Falsy(agent_config_json)
      THEN [ error |-> "ValueError" ]
      ELSE IF ~ConfigLoads(agent_config_json).ok
           THEN [ error |-> "Malformed" ]
           ELSE IF ~Falsy(created_at_json) /\ ~FromIsoFormat(created_at_json).ok
                THEN [ error |-> "Malformed" ]
                ELSE [ error |-> "none",
                       agent |-> Agent(agent_id, ConfigLoads(agent_config_json).val,
                                       LoadCreatedAt(store, agent_id, now)) ]

\* get_agent: what the call returns or raises
GetAgentResult(store, agent_id, now) ==
  LET agent_config_json == StoreGet(store, AgentKey(agent_id))
  IN  IF Falsy(agent_config_json)
      THEN [ error |-> "ValueError" ]
      ELSE IF ~ConfigLoads(agent_config_json).ok
           THEN [ error |-> "Malformed" ]
           ELSE [ error |-> "none",
                  agent |-> Agent(agent_id, ConfigLoads(agent_config_json).val,
                                  LoadCreatedAt(store, agent_id, now)) ]

\* list.remove: drops the first occurrence
ListRemove(list, x) ==
  LET i == CHOOSE n \in 1..Len(list) :
             list[n] = x /\ \A m \in 1..(n - 1) : list[m] # x
  IN  SubSeq(list, 1, i - 1) \o SubSeq(list, i + 1, Len(list))

InList(list, x) == \E i \in 1..Len(list) : list[i] = x

\* delete_agent that also removes the agent's session and turn keys
DeleteAgentEffect_Cascade(kind, store, ids, agent_id) ==
  LET Keep(r) == /\ r.key # AgentKey(agent_id)
                 /\ r.key # CreatedAtKey(agent_id)
                 /\ ~StartsWith(r.key, SessionKey(agent_id, << >>))
      s2 == SelectSeq(store, Keep)
  IN  IF InList(ids, agent_id)
      THEN [ store |-> StoreSet(kind, s2, AgentIdsKey, DumpIds(ListRemove(ids, agent_id))),
             agent_ids |-> ListRemove(ids, agent_id) ]
      ELSE [ store |-> s2, agent_ids |-> ids ]

\* delete_agent that rewrites the stored list whether or not it tracked the
\* identifier
DeleteAgentEffect_AlwaysRewrite(kind, store, ids, agent_id) ==
  LET s1 == StoreDelete(store, AgentKey(agent_id))
      s2 == StoreDelete(s1, CreatedAtKey(agent_id))
      ids2 == IF InList(ids, agent_id) THEN ListRemove(ids, agent_id) ELSE ids
  IN  [ store |-> StoreSet(kind, s2, AgentIdsKey, DumpIds(ids2)), agent_ids |-> ids2 ]

\* delete_agent that only drops the identifier from the tracked list
DeleteAgentEffect_IndexOnly(kind, store, ids, agent_id) ==
  IF InList(ids, agent_id)
  THEN [ store |-> StoreSet(kind, store, AgentIdsKey, DumpIds(ListRemove(ids, agent_id))),
         agent_ids |-> ListRemove(ids, agent_id) ]
  ELSE [ store |-> store, agent_ids |-> ids ]

\* delete_agent: the store and the tracked list after the call
DeleteAgentEffect(kind, store, ids, agent_id) ==
  LET s1 == StoreDelete(store, AgentKey(agent_id))
      s2 == StoreDelete(s1, CreatedAtKey(agent_id))
  IN  IF InList(ids, agent_id)
      THEN [ store |-> StoreSet(kind, s2, AgentIdsKey, DumpIds(ListRemove(ids, agent_id))),
             agent_ids |-> ListRemove(ids, agent_id) ]
      ELSE [ store |-> s2, agent_ids |-> ids ]

\* list_agents, first loop: the agents of the tracked identifiers
RECURSIVE LoadTracked(_, _, _)
LoadTracked(store, ids, now) ==
  IF ids = << >> THEN << >>
  ELSE LET agent_config_json == StoreGet(store, AgentKey(ids[1]))
       IN  (IF ~Falsy(agent_config_json) /\ ConfigLoads(agent_config_json).ok
            THEN << Agent(ids[1], ConfigLoads(agent_config_json).val,
                          LoadCreatedAt(store, ids[1], now)) >>
            ELSE << >>)
           \o LoadTracked(store, Tail(ids), now)

\* The scan without the test for agents that are already listed
RECURSIVE ScanUntracked_NoSkip(_, _, _, _, _)
ScanUntracked_NoSkip(rows, store, agents, ids, now) ==
  IF rows = << >> THEN [ agents |-> agents, agent_ids |-> ids ]
  ELSE LET key == rows[1].key
           agent_id == DropFirst(key, 6)
       IN  IF /\ StartsWith(key, AgentKey(<< >>))
              /\ key # AgentIdsKey
              /\ Count(agent_id, ":") = 0
              /\ ConfigLoads(rows[1].value).ok
           THEN ScanUntracked_NoSkip(Tail(rows), store,
                  Append(agents, Agent(agent_id, ConfigLoads(rows[1].value).val,
                                       LoadCreatedAt(store, agent_id, now))),
                  IF InList(ids, agent_id) THEN ids ELSE Append(ids, agent_id),
                  now)
           ELSE ScanUntracked_NoSkip(Tail(rows), store, agents, ids, now)

\* The scan that lists the agents it finds and leaves the tracked list alone
RECURSIVE ScanUntracked_NoTrack(_, _, _, _, _)
ScanUntracked_NoTrack(rows, store, agents, ids, now) ==
  IF rows = << >> THEN [ agents |-> agents, agent_ids |-> ids ]
  ELSE LET key == rows[1].key
           agent_id == DropFirst(key, 6)
       IN  IF /\ StartsWith(key, AgentKey(<< >>))
              /\ key # AgentIdsKey
              /\ Count(agent_id, ":") = 0
              /\ ~\E i \in 1..Len(agents) : agents[i].agent_id = agent_id
              /\ ConfigLoads(rows[1].value).ok
           THEN ScanUntracked_NoTrack(Tail(rows), store,
                  Append(agents, Agent(agent_id, ConfigLoads(rows[1].value).val,
                                       LoadCreatedAt(store, agent_id, now))),
                  ids, now)
           ELSE ScanUntracked_NoTrack(Tail(rows), store, agents, ids, now)

\* list_agents, second loop: the scan of the in-memory store for agents
\* that are not tracked
RECURSIVE ScanUntracked(_, _, _, _, _)
ScanUntracked(rows, store, agents, ids, now) ==
  IF rows = << >> THEN [ agents |-> agents, agent_ids |-> ids ]
  ELSE LET key == rows[1].key
           agent_id == DropFirst(key, 6)
       IN  IF /\ StartsWith(key, AgentKey(<< >>))
              /\ key # AgentIdsKey
              /\ Count(agent_id, ":") = 0
              /\ ~\E i \in 1..Len(agents) : agents[i].agent_id = agent_id
              /\ ConfigLoads(rows[1].value).ok
           THEN ScanUntracked(Tail(rows), store,
                  Append(agents, Agent(agent_id, ConfigLoads(rows[1].value).val,
                                       LoadCreatedAt(store, agent_id, now))),
                  IF InList(ids, agent_id) THEN ids ELSE Append(ids, agent_id),
                  now)
           ELSE ScanUntracked(Tail(rows), store, agents, ids, now)

\* list_agents: the listing, and the store and the tracked list after the call
ListAgentsEffect(kind, store, ids, now) ==
  IF kind = "inmemory"
  THEN LET scan == ScanUntracked(store, store, LoadTracked(store, ids, now), ids, now)
       IN  [ data |-> scan.agents,
             store |-> StoreSet(kind, store, AgentIdsKey, DumpIds(scan.agent_ids)),
             agent_ids |-> scan.agent_ids ]
  ELSE [ data |-> LoadTracked(store, ids, now), store |-> store, agent_ids |-> ids ]

(* ------------------------- session and turn store ---------------------- *)
\* _get_agent_impl: the configuration the ChatAgent is built from, or the
\* error raised
_get_agent_impl(store, agent_id) ==
  LET agent_config == StoreGet(store, AgentKey(agent_id))
  IN  IF Falsy(agent_config) \/ ~ConfigLoads(agent_config).ok
      THEN [ error |-> "ValueError" ]
      ELSE [ error |-> "none", agent_config |-> ConfigLoads(agent_config).val ]

\* _get_agent_impl, persistence_store=...: the store the ChatAgent keeps its
\* sessions and turns in
StorageKind(kind, agent_config) ==
  IF agent_config.enable_session_persistence THEN kind ELSE "inmemory"
StorageOf(agent_config, pstore, mstore) ==
  IF agent_config.enable_session_persistence THEN pstore ELSE mstore

\* AgentPersistence.create_session
CreateSessionEffect(kind, store, agent_id, session_id, session_name, started_at) ==
  StoreSet(kind, store, SessionKey(agent_id, session_id),
           SessionInfoDumpJson([ session_id |-> session_id,
                                 session_name |-> session_name,
                                 started_at |-> started_at ]))

\* The largest character: closes the range of the keys under a prefix.
TopChar == "~"

RECURSIVE LoadTurns(_)
LoadTurns(values) ==
  IF values = << >> THEN << >>
  ELSE (IF TurnLoads(values[1]).ok THEN << TurnLoads(values[1]).val >> ELSE << >>)
       \o LoadTurns(Tail(values))

\* AgentPersistence.get_session_turns: the turns under the session's key
\* prefix, in load order
GetSessionTurns(kind, store, agent_id, session_id, plan) ==
  LoadTurns(StoreRange(kind, store,
                       TurnKey(agent_id, session_id, << >>),
                       TurnKey(agent_id, session_id, << TopChar >>), plan))

\* An Optional[List[str]] argument
NoList == [ given |-> FALSE, ids |-> << >> ]
List(ids) == [ given |-> TRUE, ids |-> ids ]
ListTruthy(l) == l.given /\ l.ids # << >>

\* get_agents_session, the turn-id filter
FilterTurns(turns, turn_ids) ==
  IF ListTruthy(turn_ids)
  THEN LET Keep(t) == InList(turn_ids.ids, t.turn_id) IN SelectSeq(turns, Keep)
  ELSE turns

\* get_agents_session: what the call returns or raises
GetSessionResult(kind, pstore, mstore, agent_id, session_id, turn_ids, plan) ==
  LET impl == _get_agent_impl(pstore, agent_id)
  IN  IF impl.error # "none" THEN [ error |-> impl.error ]
      ELSE LET storage == StorageOf(impl.agent_config, pstore, mstore)
               skind == StorageKind(kind, impl.agent_config)
               session_info == StoreGet(storage, SessionKey(agent_id, session_id))
           IN  IF session_info = None
               THEN [ error |-> "ValueError" ]
               ELSE IF ~SessionInfoLoads(session_info).ok
                    THEN [ error |-> "Malformed" ]
                    ELSE [ error |-> "none",
                           session |->
                             [ session_id |-> session_id,
                               session_name |-> SessionInfoLoads(session_info).val.session_name,
                               started_at |-> SessionInfoLoads(session_info).val.started_at,
                               turns |-> FilterTurns(
                                           GetSessionTurns(skind, storage, agent_id,
                                                           session_id, plan),
                                           turn_ids) ] ]

\* delete_agents_session that also removes the turn keys of the session
DeleteSessionEffect_Cascade(store, agent_id, session_id) ==
  LET Keep(r) == ~StartsWith(r.key, SessionKey(agent_id, session_id))
  IN  SelectSeq(store, Keep)

\* delete_agents_session: the persistence store after the call
DeleteSessionEffect(store, agent_id, session_id) ==
  StoreDelete(store, SessionKey(agent_id, session_id))

\* key.split(":")[-1]
RECURSIVE LastPart(_)
LastPart(key) == IF Count(key, ":") = 0 THEN key ELSE LastPart(Tail(key))

\* A Session of the listing
Session(session_info, turns) ==
  [ session_id |-> session_info.session_id,
    session_name |-> session_info.session_name,
    turns |-> turns,
    started_at |-> session_info.started_at ]

\* The rows list_agent_sessions walks on a store it only has the keys of:
\* each key with what get returns for it
KeyRows(keys, store) == [ i \in 1..Len(keys) |-> Row(keys[i], StoreGet(store, keys[i])) ]

\* The inner loop left at the first turn that does not load
RECURSIVE ListedTurns_Abort(_, _, _, _)
ListedTurns_Abort(rows, agent_id, session_id, test) ==
  IF rows = << >> THEN << >>
  ELSE IF /\ StartsWith(rows[1].key, TurnKey(agent_id, session_id, << >>))
          /\ Count(rows[1].key, ":") = 3
       THEN IF (test => ~Falsy(rows[1].value)) /\ TurnLoads(rows[1].value).ok
            THEN << TurnLoads(rows[1].value).val >>
                 \o ListedTurns_Abort(Tail(rows), agent_id, session_id, test)
            ELSE << >>
       ELSE ListedTurns_Abort(Tail(rows), agent_id, session_id, test)

\* The inner loop that takes every turn key of the agent for a turn of the
\* session
RECURSIVE ListedTurns_AnySession(_, _, _, _)
ListedTurns_AnySession(rows, agent_id, session_id, test) ==
  IF rows = << >> THEN << >>
  ELSE (IF /\ StartsWith(rows[1].key, SessionKey(agent_id, << >>))
           /\ Count(rows[1].key, ":") = 3
           /\ test => ~Falsy(rows[1].value)
           /\ TurnLoads(rows[1].value).ok
        THEN << TurnLoads(rows[1].value).val >>
        ELSE << >>)
       \o ListedTurns_AnySession(Tail(rows), agent_id, session_id, test)

\* list_agent_sessions, inner loop: the turns of the session among the rows,
\* a turn that does not load is logged and left out; test says whether the
\* value is tested for truth before it is parsed
RECURSIVE ListedTurns(_, _, _, _)
ListedTurns(rows, agent_id, session_id, test) ==
  IF rows = << >> THEN << >>
  ELSE (IF /\ StartsWith(rows[1].key, TurnKey(agent_id, session_id, << >>))
           /\ Count(rows[1].key, ":") = 3
           /\ test => ~Falsy(rows[1].value)
           /\ TurnLoads(rows[1].value).ok
        THEN << TurnLoads(rows[1].value).val >>
        ELSE << >>)
       \o ListedTurns(Tail(rows), agent_id, session_id, test)

\* list_agent_sessions, outer loop: one Session per session key of the agent
\* among the rows left to walk, a session that does not load is logged and
\* left out; all is every row of the walk
RECURSIVE ListedSessions(_, _, _, _)
ListedSessions(rows, all, agent_id, test) ==
  IF rows = << >> THEN << >>
  ELSE (IF /\ StartsWith(rows[1].key, SessionKey(agent_id, << >>))
           /\ Count(rows[1].key, ":") = 2
           /\ test => ~Falsy(rows[1].value)
           /\ SessionInfoLoads(rows[1].value).ok
        THEN << Session(SessionInfoLoads(rows[1].value).val,
                        ListedTurns(all, agent_id, LastPart(rows[1].key), test)) >>
        ELSE << >>)
       \o ListedSessions(Tail(rows), all, agent_id, test)

\* list_agent_sessions: what the call returns or raises
ListSessionsResult(kind, store, agent_id, plan) ==
  IF Falsy(StoreGet(store, AgentKey(agent_id)))
  THEN [ error |-> "ValueError" ]
  ELSE IF kind = "inmemory"
       THEN [ error |-> "none", data |-> ListedSessions(store, store, agent_id, FALSE) ]
       ELSE LET all_keys == StoreListKeys(kind, store, NoPrefix, plan)
                rows == KeyRows(all_keys, store)
            IN  [ error |-> "none", data |-> ListedSessions(rows, rows, agent_id, TRUE) ]

(* ----------------------- turn execution controller --------------------- *)
\* The stream argument of create_agent_turn and resume_agent_turn: a bool,
\* None, or left out (the default is False).
StreamArgs == { "True", "False", "None", "omitted" }
StreamTruthy(arg) == arg = "True"

Idle == [ pc |-> "idle" ]

\* The stored turn, or the reason there is none
LoadTurn(store, agent_id, session_id, turn_id) ==
  LET value == StoreGet(store, TurnKey(agent_id, session_id, turn_id))
  IN  IF Falsy(value) THEN ParseError ELSE TurnLoads(value)

SaveTurn(kind, store, agent_id, session_id, turn) ==
  StoreSet(kind, store, TurnKey(agent_id, session_id, turn.turn_id), TurnDumpJson(turn))

\* ChatAgent.create_and_execute_turn, on entry: the turn is recorded as in
\* progress with no step
BeginTurn(turn_id) == [ turn_id |-> turn_id, status |-> "P", steps |-> << >> ]

\* ChatAgent.resume_turn, on entry: the tool result is recorded as a step of
\* the turn and the turn is in progress again
ResumeTurn(turn) == [ turn EXCEPT !.status = "P", !.steps = Append(@, "t") ]

\* A step completes and is recorded
RecordStep(turn) == [ turn EXCEPT !.steps = Append(@, "i") ]

\* The next step needs a tool result that is not available
SuspendTurn(turn) == [ turn EXCEPT !.status = "A" ]

\* All steps are recorded
CompleteTurn(turn) == [ turn EXCEPT !.status = "C" ]

vars == << backend, persistence_store, in_memory_store, agent_ids, generator,
           response, issued, configs, deleted, turn_log, in_flight >>

Backends == { "inmemory", "sqlite" }

RECURSIVE IdList(_)
IdList(S) ==
  IF S = { } THEN << >>
  ELSE LET n == CHOOSE x \in S : \A y \in S : x <= y
       IN  << IdString(n) >> \o IdList(S \ { n })

\* The turn-id filters a caller passes: none, or a list of identifiers
TurnIdFilters == { NoList } \cup { List(IdList(S)) : S \in SUBSET (1..MaxTurns) }

\* __init__ and initialize on an empty store
Init ==
  /\ backend \in Backends
  /\ persistence_store = << >>
  /\ in_memory_store = << >>
  /\ agent_ids = << >>
  /\ generator = Idle
  /\ response = [ op |-> "init", error |-> "none" ]
  /\ issued = [ agents |-> { }, sessions |-> { }, turns |-> { } ]
  /\ configs = << >>
  /\ deleted = { }
  /\ turn_log = << >>
  /\ in_flight = { }

\* The store an agent's ChatAgent writes to becomes new
WriteStorage(agent_config, new) ==
  IF agent_config.enable_session_persistence
  THEN persistence_store' = new /\ UNCHANGED in_memory_store
  ELSE in_memory_store' = new /\ UNCHANGED persistence_store

\* initialize: the persistence store is built from the configuration and the
\* tracked list is loaded from it
initialize ==
  \E type \in ConfigTypes :
    LET built == kvstore_impl(type)
        agent_ids_json == StoreGet(persistence_store, AgentIdsKey)
    IN  /\ backend = "unset"
        /\ IF built.error # "none"
           THEN /\ response' = [ op |-> "initialize", type |-> type, error |-> built.error ]
                /\ UNCHANGED << backend, in_flight, agent_ids >>
           ELSE /\ backend' = built.impl
                /\ agent_ids' = IF ~Falsy(agent_ids_json) /\ LoadIds(agent_ids_json).ok
                                THEN LoadIds(agent_ids_json).val
                                ELSE agent_ids
                /\ response' = [ op |-> "initialize", type |-> type, error |-> "none",
                                 initialized |-> built.initialized ]
        /\ UNCHANGED << persistence_store, in_memory_store, generator, issued, configs,
                        deleted, turn_log, in_flight >>

create_agent ==
  \E agent_config \in AgentConfigs,
     agent_id \in AgentIdSet \ (issued.agents \cup deleted), created_at \in Times :
    LET eff == CreateAgentEffect(backend, persistence_store, agent_ids,
                                 agent_id, agent_config, created_at)
    IN  /\ persistence_store' = eff.store
        /\ agent_ids' = eff.agent_ids
        /\ issued' = [ issued EXCEPT !.agents = @ \cup { agent_id } ]
        /\ configs' = Append(configs, [ agent_id |-> agent_id, agent_config |-> agent_config ])
        /\ response' = [ op |-> "create_agent", error |-> "none", agent_id |-> agent_id ]
        /\ UNCHANGED << backend, in_flight, in_memory_store, generator, deleted, turn_log >>

get_agent ==
  \E agent_id \in AgentIdSet, now \in Times :
    /\ response' = [ op |-> "get_agent", agent_id |-> agent_id ]
                   @@ GetAgentResult(persistence_store, agent_id, now)
    /\ UNCHANGED << backend, in_flight, persistence_store, in_memory_store, agent_ids, generator,
                    issued, configs, deleted, turn_log >>

list_agents ==
  \E now \in Times :
    LET eff == ListAgentsEffect(backend, persistence_store, agent_ids, now)
    IN  /\ persistence_store' = eff.store
        /\ agent_ids' = eff.agent_ids
        /\ response' = [ op |-> "list_agents", error |-> "none", data |-> eff.data,
                         healed |-> { eff.agent_ids[i] : i \in 1..Len(eff.agent_ids) }
                                      \ { agent_ids[i] : i \in 1..Len(agent_ids) },
                         write |-> IF backend = "inmemory" THEN "done" ELSE "none" ]
        /\ UNCHANGED << backend, in_flight, in_memory_store, generator, issued, configs, deleted,
                        turn_log >>

\* list_agents when the set of the agent_ids record raises: the identifiers
\* the scan appended stay in self.agent_ids, the store keeps what it held,
\* and the exception leaves the call at the await of the set
list_agents_set_raises ==
  \E now \in Times :
    LET eff == ListAgentsEffect(backend, persistence_store, agent_ids, now)
    IN  /\ backend = "inmemory"
        /\ agent_ids' = eff.agent_ids
        /\ response' = [ op |-> "list_agents", error |-> "StoreError",
                         assembled |-> eff.data, write |-> "raised" ]
        /\ UNCHANGED << backend, in_flight, persistence_store, in_memory_store, generator, issued,
                        configs, deleted, turn_log >>

delete_agent ==
  \E agent_id \in AgentIdSet :
    LET eff == DeleteAgentEffect(backend, persistence_store, agent_ids, agent_id)
    IN  /\ persistence_store' = eff.store
        /\ agent_ids' = eff.agent_ids
        /\ deleted' = deleted \cup { agent_id }
        /\ response' = [ op |-> "delete_agent", error |-> "none", agent_id |-> agent_id,
                         tracked |-> InList(agent_ids, agent_id) ]
        /\ UNCHANGED << backend, in_flight, in_memory_store, generator, issued, configs, turn_log >>

create_agent_session ==
  \E agent_id \in AgentIdSet, session_name \in SessionNames,
     session_id \in SessionIdSet \ issued.sessions, started_at \in Times :
    LET impl == _get_agent_impl(persistence_store, agent_id)
    IN  IF impl.error # "none"
        THEN /\ response' = [ op |-> "create_agent_session", error |-> impl.error,
                              agent_id |-> agent_id ]
             /\ UNCHANGED << backend, in_flight, persistence_store, in_memory_store, agent_ids,
                             generator, issued, configs, deleted, turn_log >>
        ELSE /\ WriteStorage(impl.agent_config,
                  CreateSessionEffect(StorageKind(backend, impl.agent_config),
                                      StorageOf(impl.agent_config, persistence_store,
                                                in_memory_store),
                                      agent_id, session_id, session_name, started_at))
             /\ issued' = [ issued EXCEPT !.sessions = @ \cup { session_id } ]
             /\ response' = [ op |-> "create_agent_session", error |-> "none",
                              agent_id |-> agent_id, session_id |-> session_id ]
             /\ UNCHANGED << backend, in_flight, agent_ids, generator, configs, deleted, turn_log >>

get_agents_session ==
  \E agent_id \in AgentIdSet, session_id \in SessionIdSet,
     turn_ids \in TurnIdFilters, plan \in QueryPlans :
    /\ response' = [ op |-> "get_agents_session", agent_id |-> agent_id,
                     session_id |-> session_id, turn_ids |-> turn_ids ]
                   @@ GetSessionResult(backend, persistence_store, in_memory_store,
                                       agent_id, session_id, turn_ids, plan)
    /\ UNCHANGED << backend, in_flight, persistence_store, in_memory_store, agent_ids, generator,
                    issued, configs, deleted, turn_log >>

delete_agents_session ==
  \E agent_id \in AgentIdSet, session_id \in SessionIdSet :
    /\ persistence_store' = DeleteSessionEffect(persistence_store, agent_id, session_id)
    /\ response' = [ op |-> "delete_agents_session", error |-> "none",
                     agent_id |-> agent_id, session_id |-> session_id ]
    /\ UNCHANGED << backend, in_flight, in_memory_store, agent_ids, generator, issued, configs,
                    deleted, turn_log >>

list_agent_sessions ==
  \E agent_id \in AgentIdSet, plan \in QueryPlans :
    /\ response' = [ op |-> "list_agent_sessions", agent_id |-> agent_id, plan |-> plan ]
                   @@ ListSessionsResult(backend, persistence_store, agent_id, plan)
    /\ UNCHANGED << backend, in_flight, persistence_store, in_memory_store, agent_ids, generator,
                    issued, configs, deleted, turn_log >>

\* create_agent_turn that tests the stream field of the request it built
create_agent_turn_RequestStream(agent_id, session_id, stream) ==
  /\ generator' = [ pc |-> "start", kind |-> "create", agent_id |-> agent_id,
                    session_id |-> session_id, turn_id |-> << >> ]
  /\ response' = [ op |-> "create_agent_turn", error |-> "none",
                   agent_id |-> agent_id, session_id |-> session_id,
                   stream |-> stream ]
  /\ UNCHANGED << backend, in_flight, persistence_store, in_memory_store, agent_ids, issued,
                  configs, deleted, turn_log >>

\* create_agent_turn called with the given stream argument
create_agent_turn(agent_id, session_id, stream) ==
  /\ IF StreamTruthy(stream)
     THEN generator' = [ pc |-> "start", kind |-> "create", agent_id |-> agent_id,
                         session_id |-> session_id, turn_id |-> << >> ]
     ELSE UNCHANGED generator
  /\ response' = [ op |-> "create_agent_turn",
                   error |-> IF StreamTruthy(stream) THEN "none"
                             ELSE "NotImplementedError",
                   agent_id |-> agent_id, session_id |-> session_id,
                   stream |-> stream ]
  /\ UNCHANGED << backend, in_flight, persistence_store, in_memory_store, agent_ids, issued,
                  configs, deleted, turn_log >>

\* resume_agent_turn that hands the request to the generator of a new turn
resume_agent_turn_Restart(agent_id, session_id, turn_id, stream) ==
  /\ IF StreamTruthy(stream)
     THEN generator' = [ pc |-> "start", kind |-> "create", agent_id |-> agent_id,
                         session_id |-> session_id, turn_id |-> << >> ]
     ELSE UNCHANGED generator
  /\ response' = [ op |-> "resume_agent_turn",
                   error |-> IF StreamTruthy(stream) THEN "none"
                             ELSE "NotImplementedError",
                   agent_id |-> agent_id, session_id |-> session_id,
                   turn_id |-> turn_id, stream |-> stream ]
  /\ UNCHANGED << backend, in_flight, persistence_store, in_memory_store, agent_ids, issued,
                  configs, deleted, turn_log >>

\* resume_agent_turn called with the given stream argument
resume_agent_turn(agent_id, session_id, turn_id, stream) ==
  /\ IF StreamTruthy(stream)
     THEN generator' = [ pc |-> "start", kind |-> "resume", agent_id |-> agent_id,
                         session_id |-> session_id, turn_id |-> turn_id ]
     ELSE UNCHANGED generator
  /\ response' = [ op |-> "resume_agent_turn",
                   error |-> IF StreamTruthy(stream) THEN "none"
                             ELSE "NotImplementedError",
                   agent_id |-> agent_id, session_id |-> session_id,
                   turn_id |-> turn_id, stream |-> stream ]
  /\ UNCHANGED << backend, in_flight, persistence_store, in_memory_store, agent_ids, issued,
                  configs, deleted, turn_log >>

\* The generator ends by raising
StreamRaises(error) ==
  /\ generator' = Idle
  /\ response' = [ op |-> "stream", kind |-> generator.kind, error |-> error,
                   agent_id |-> generator.agent_id, session_id |-> generator.session_id,
                   turn_id |-> generator.turn_id ]
  /\ UNCHANGED << backend, in_flight, persistence_store, in_memory_store, agent_ids, issued,
                  configs, deleted, turn_log >>

\* The generator writes the turn and yields an event, or ends after it
StreamWrites(agent_config, turn, event, pc) ==
  /\ \E new \in { SaveTurn(StorageKind(backend, agent_config),
                           StorageOf(agent_config, persistence_store, in_memory_store),
                           generator.agent_id, generator.session_id, turn) } :
       WriteStorage(agent_config, new)
  /\ generator' = IF pc = "idle" THEN Idle
                  ELSE [ pc |-> pc, kind |-> generator.kind,
                         agent_id |-> generator.agent_id,
                         session_id |-> generator.session_id,
                         turn_id |-> turn.turn_id, agent_config |-> agent_config ]
  /\ response' = [ op |-> "stream", kind |-> generator.kind, error |-> "none",
                   event |-> event, agent_id |-> generator.agent_id,
                   session_id |-> generator.session_id, turn_id |-> turn.turn_id,
                   turn |-> turn ]
  /\ UNCHANGED << backend, in_flight, agent_ids, configs, deleted >>

\* The first event of the generator create_agent_turn returned
_create_agent_turn_streaming ==
  /\ generator.pc = "start" /\ generator.kind = "create"
  /\ \E impl \in { _get_agent_impl(persistence_store, generator.agent_id) } :
       IF impl.error # "none" THEN StreamRaises(impl.error)
       ELSE IF StoreGet(StorageOf(impl.agent_config, persistence_store, in_memory_store),
                        SessionKey(generator.agent_id, generator.session_id)) = None
            THEN StreamRaises("ValueError")
            ELSE \E turn_id \in TurnIdSet \ issued.turns :
                   /\ StreamWrites(impl.agent_config, BeginTurn(turn_id),
                                   "turn_start", "running")
                   /\ issued' = [ issued EXCEPT !.turns = @ \cup { turn_id } ]
                   /\ turn_log' = Append(turn_log,
                                    [ agent_id |-> generator.agent_id,
                                      session_id |-> generator.session_id,
                                      turn_id |-> turn_id ])

\* The first event of the generator resume_agent_turn returned
_continue_agent_turn_streaming ==
  /\ generator.pc = "start" /\ generator.kind = "resume"
  /\ \E impl \in { _get_agent_impl(persistence_store, generator.agent_id) } :
       IF impl.error # "none" THEN StreamRaises(impl.error)
       ELSE \E turn \in { LoadTurn(StorageOf(impl.agent_config, persistence_store,
                                             in_memory_store),
                                   generator.agent_id, generator.session_id,
                                   generator.turn_id) } :
              IF ~turn.ok \/ turn.val.status # "A"
              THEN StreamRaises("ValueError")
              ELSE /\ \E resumed \in { ResumeTurn(turn.val) } :
                        StreamWrites(impl.agent_config, resumed, "turn_resumed",
                                     "running")
                   /\ UNCHANGED << issued, turn_log >>

\* The turn the running generator works on
StreamTurn ==
  LoadTurn(StorageOf(generator.agent_config, persistence_store, in_memory_store),
           generator.agent_id, generator.session_id, generator.turn_id)

\* The generator yields a completed step
turn_step ==
  /\ generator.pc = "running"
  /\ \E turn \in { StreamTurn } :
       /\ turn.ok /\ Len(turn.val.steps) < MaxSteps
       /\ \E next \in { RecordStep(turn.val) } :
            StreamWrites(generator.agent_config, next, "step_complete", "running")
  /\ UNCHANGED << issued, turn_log >>

\* The generator ends with the turn awaiting a tool result
turn_suspend ==
  /\ generator.pc = "running"
  /\ \E turn \in { StreamTurn } :
       /\ turn.ok /\ Len(turn.val.steps) < MaxSteps
       /\ \E next \in { SuspendTurn(turn.val) } :
            StreamWrites(generator.agent_config, next, "turn_awaiting_input", "idle")
  /\ UNCHANGED << issued, turn_log >>

\* The generator ends with the turn completed
turn_complete ==
  /\ generator.pc = "running"
  /\ \E turn \in { StreamTurn } :
       /\ turn.ok
       /\ \E next \in { CompleteTurn(turn.val) } :
            StreamWrites(generator.agent_config, next, "turn_complete", "idle")
  /\ UNCHANGED << issued, turn_log >>

(* -------------------- calls suspended at the store --------------------- *)
\* The operations of SqliteKVStoreImpl await a connection, so a call is
\* suspended at each of them and other calls run before it goes on; those of
\* InmemoryKVStoreImpl hold no await.
Suspends(kind) == kind # "inmemory"

\* The frame of a suspended call goes from frame to next
Goes(frame, next) == in_flight' = (in_flight \ { frame }) \cup { next }

\* The value the set of the agent_ids record stores: json.dumps is evaluated
\* before the set is awaited
IndexValue_AtWrite(frame, ids) == DumpIds(ids)

IndexValue(frame, ids) == frame.value

\* create_agent up to the await of the set of agent:{id}
create_agent_begin ==
  \E agent_config \in AgentConfigs,
     agent_id \in AgentIdSet \ (issued.agents \cup deleted), created_at \in Times :
    /\ Suspends(backend)
    /\ Cardinality(in_flight) < MaxCalls
    /\ in_flight' = in_flight \cup
         { [ op |-> "create_agent", pc |-> "config", agent_id |-> agent_id,
             agent_config |-> agent_config, created_at |-> created_at ] }
    /\ issued' = [ issued EXCEPT !.agents = @ \cup { agent_id } ]
    /\ configs' = Append(configs, [ agent_id |-> agent_id, agent_config |-> agent_config ])
    /\ UNCHANGED << backend, persistence_store, in_memory_store, agent_ids, generator,
                    response, deleted, turn_log >>

\* The set of agent:{id} lands; the call awaits the set of the creation time
create_agent_config ==
  \E frame \in in_flight :
    /\ frame.op = "create_agent" /\ frame.pc = "config"
    /\ persistence_store' = StoreSet(backend, persistence_store, AgentKey(frame.agent_id),
                                     ConfigDumpJson(frame.agent_config))
    /\ Goes(frame, [ frame EXCEPT !.pc = "created_at" ])
    /\ UNCHANGED << backend, in_memory_store, agent_ids, generator, response, issued,
                    configs, deleted, turn_log >>

\* The set of the creation time lands; the call appends its identifier to
\* self.agent_ids, dumps the list and awaits the set of the agent_ids record
create_agent_created_at ==
  \E frame \in in_flight :
    /\ frame.op = "create_agent" /\ frame.pc = "created_at"
    /\ persistence_store' = StoreSet(backend, persistence_store,
                                     CreatedAtKey(frame.agent_id),
                                     IsoFormat(frame.created_at))
    /\ agent_ids' = Append(agent_ids, frame.agent_id)
    /\ Goes(frame, [ op |-> "create_agent", pc |-> "index", agent_id |-> frame.agent_id,
                     value |-> DumpIds(Append(agent_ids, frame.agent_id)) ])
    /\ UNCHANGED << backend, in_memory_store, generator, response, issued, configs,
                    deleted, turn_log >>

\* The set of the agent_ids record lands and the call returns
create_agent_index ==
  \E frame \in in_flight :
    /\ frame.op = "create_agent" /\ frame.pc = "index"
    /\ persistence_store' = StoreSet(backend, persistence_store, AgentIdsKey,
                                     IndexValue(frame, agent_ids))
    /\ in_flight' = in_flight \ { frame }
    /\ response' = [ op |-> "create_agent", error |-> "none",
                     agent_id |-> frame.agent_id ]
    /\ UNCHANGED << backend, in_memory_store, agent_ids, generator, issued, configs,
                    deleted, turn_log >>

\* list_agents, the head of the first loop: the iterator over self.agent_ids
\* has yielded frame.index elements; it yields the element at the next
\* position of the list as the list is now and the call awaits the get of its
\* configuration, or the list has no such position and the call returns
ListAdvance(frame, agents) ==
  IF frame.index < Len(agent_ids)
  THEN /\ Goes(frame, [ op |-> "list_agents", pc |-> "config",
                        index |-> frame.index + 1,
                        agent_id |-> agent_ids[frame.index + 1],
                        agents |-> agents, start_ids |-> frame.start_ids ])
       /\ UNCHANGED response
  ELSE /\ in_flight' = in_flight \ { frame }
       /\ response' = [ op |-> "list_agents", error |-> "none", data |-> agents,
                        start_ids |-> frame.start_ids ]

\* list_agents on a store that is not in memory, up to its first await
list_agents_begin ==
  /\ Suspends(backend)
  /\ \A frame \in in_flight : frame.op # "list_agents"
  /\ Cardinality(in_flight) < MaxCalls
  /\ IF agent_ids = << >>
     THEN /\ response' = [ op |-> "list_agents", error |-> "none", data |-> << >>,
                           start_ids |-> << >> ]
          /\ UNCHANGED in_flight
     ELSE /\ in_flight' = in_flight \cup
               { [ op |-> "list_agents", pc |-> "config", index |-> 1,
                   agent_id |-> agent_ids[1], agents |-> << >>,
                   start_ids |-> agent_ids ] }
          /\ UNCHANGED response
  /\ UNCHANGED << backend, persistence_store, in_memory_store, agent_ids, generator,
                  issued, configs, deleted, turn_log >>

\* The get of agent:{id} lands: the call awaits the get of the creation time,
\* or leaves the agent out and goes to the next identifier
list_agents_config ==
  \E frame \in in_flight :
    /\ frame.op = "list_agents" /\ frame.pc = "config"
    /\ LET agent_config_json == StoreGet(persistence_store, AgentKey(frame.agent_id))
       IN  IF ~Falsy(agent_config_json) /\ ConfigLoads(agent_config_json).ok
           THEN /\ Goes(frame, [ frame EXCEPT !.pc = "created_at" ]
                               @@ [ agent_config |-> ConfigLoads(agent_config_json).val ])
                /\ UNCHANGED response
           ELSE ListAdvance(frame, frame.agents)
    /\ UNCHANGED << backend, persistence_store, in_memory_store, agent_ids, generator,
                    issued, configs, deleted, turn_log >>

\* The get of agent:{id}:created_at lands: the agent is listed and the call
\* goes to the next identifier
list_agents_created_at ==
  \E frame \in in_flight, now \in Times :
    /\ frame.op = "list_agents" /\ frame.pc = "created_at"
    /\ ListAdvance(frame,
                   Append(frame.agents,
                          Agent(frame.agent_id, frame.agent_config,
                                LoadCreatedAt(persistence_store, frame.agent_id, now))))
    /\ UNCHANGED << backend, persistence_store, in_memory_store, agent_ids, generator,
                    issued, configs, deleted, turn_log >>

\* The process stops and a registry is built and initialised again over the
\* same store: what was held in memory is gone, the calls in flight with it,
\* and the tracked list is loaded from the agent_ids record
restart ==
  LET agent_ids_json == StoreGet(persistence_store, AgentIdsKey)
  IN  /\ Suspends(backend)
      /\ agent_ids' = IF ~Falsy(agent_ids_json) /\ LoadIds(agent_ids_json).ok
                      THEN LoadIds(agent_ids_json).val
                      ELSE << >>
      /\ in_flight' = { }
      /\ in_memory_store' = << >>
      /\ generator' = Idle
      /\ response' = [ op |-> "restart", error |-> "none",
                       stopped |-> { frame.agent_id : frame \in in_flight } ]
      /\ UNCHANGED << backend, persistence_store, issued, configs, deleted, turn_log >>

(* ------------------------- key-value store calls ----------------------- *)
\* Keys a caller of the store uses: they differ in case, and some hold the
\* characters LIKE reads as wildcards.
KeyPool ==
  << << "a" >>, << "A" >>, << "a", "_" >>, << "a", "1" >>, << "a", "%" >>, << "C" >> >>
KvKeys == { KeyPool[i] : i \in 1..Min(MaxKeys, Len(KeyPool)) }
KvValues == { << "1" >>, << "2" >> }
KvBounds == KvKeys \cup { << >>, << "~" >> }
KvPrefixes ==
  { NoPrefix } \cup { Prefix(p) : p \in KvKeys \cup { << >>, << "_" >>, << "%" >> } }

RegistryUnchanged ==
  UNCHANGED << backend, in_flight, in_memory_store, agent_ids, generator, issued, configs,
               deleted, turn_log >>

kv_set ==
  \E key \in KvKeys, value \in KvValues :
    /\ persistence_store' = StoreSet(backend, persistence_store, key, value)
    /\ response' = [ op |-> "set", error |-> "none", key |-> key, value |-> value ]
    /\ RegistryUnchanged

kv_get ==
  \E key \in KvKeys :
    /\ response' = [ op |-> "get", error |-> "none", key |-> key,
                     value |-> StoreGet(persistence_store, key) ]
    /\ UNCHANGED persistence_store
    /\ RegistryUnchanged

kv_delete ==
  \E key \in KvKeys :
    /\ persistence_store' = StoreDelete(persistence_store, key)
    /\ response' = [ op |-> "delete", error |-> "none", key |-> key ]
    /\ RegistryUnchanged

kv_range ==
  \E start_key \in KvBounds, end_key \in KvBounds, plan \in QueryPlans :
    /\ response' = [ op |-> "range", error |-> "none", start_key |-> start_key,
                     end_key |-> end_key,
                     values |-> StoreRange(backend, persistence_store, start_key,
                                           end_key, plan) ]
    /\ UNCHANGED persistence_store
    /\ RegistryUnchanged

kv_list_keys ==
  \E prefix \in KvPrefixes, plan \in QueryPlans :
    /\ response' = [ op |-> "list_keys", error |-> "none", prefix |-> prefix,
                     keys |-> StoreListKeys(backend, persistence_store, prefix, plan) ]
    /\ UNCHANGED persistence_store
    /\ RegistryUnchanged

\* What a writer other than this registry leaves under a key of an agent: a
\* configuration, a timestamp, or nothing. A timestamp is no configuration
\* and a configuration is no timestamp.
DriftValues ==
  { ConfigDumpJson(c) : c \in AgentConfigs } \cup { IsoFormat(1) } \cup { None }

\* The store changes under the registry: another holder of the store sets or
\* deletes a key of an agent.
store_drift(agent_id, key, value) ==
  /\ persistence_store' =
       IF value = None THEN StoreDelete(persistence_store, key)
       ELSE StoreSet(backend, persistence_store, key, value)
  /\ issued' = [ issued EXCEPT !.agents = @ \cup { agent_id } ]
  /\ response' = [ op |-> "store_drift", error |-> "none" ]
  /\ UNCHANGED << backend, in_flight, in_memory_store, agent_ids, generator, configs,
                  deleted, turn_log >>

config_drift ==
  \E agent_id \in AgentIdSet, value \in DriftValues :
    store_drift(agent_id, AgentKey(agent_id), value)

created_at_drift ==
  \E agent_id \in AgentIdSet, value \in DriftValues :
    store_drift(agent_id, CreatedAtKey(agent_id), value)

\* What a record holds once it is damaged: text that is no JSON, or nothing
CorruptValues == { << "~" >>, << >> }

\* An agent, session or turn record of the store is damaged in place by
\* another holder of the store.
record_drift ==
  \E i \in 1..Len(persistence_store), value \in CorruptValues :
    LET key == persistence_store[i].key
    IN  /\ Cardinality({ j \in 1..Len(persistence_store) :
                           persistence_store[j].value \in CorruptValues }) < MaxDrift
        /\ \/ StartsWith(key, AgentKey(<< >>)) /\ Count(key, ":") = 1
           \/ \E agent_id \in AgentIdSet : StartsWith(key, SessionKey(agent_id, << >>))
        /\ persistence_store[i].value \notin CorruptValues
        /\ persistence_store' = StoreSet(backend, persistence_store, key, value)
        /\ response' = [ op |-> "record_drift", error |-> "none", key |-> key ]
        /\ UNCHANGED << backend, in_flight, in_memory_store, agent_ids, generator, issued,
                        configs, deleted, turn_log >>

(* ---------------------------- specifications --------------------------- *)
\* The agent registry, from an empty store.
Next ==
  \/ create_agent
  \/ get_agent
  \/ list_agents
  \/ delete_agent

Spec == Init /\ [][Next]_vars

\* A key-value store on its own, from empty.
NextKv ==
  \/ kv_set
  \/ kv_get
  \/ kv_delete
  \/ kv_range
  \/ kv_list_keys

KvSpec == Init /\ [][NextKv]_vars

\* The registry over a store that other writers change.
NextDrift ==
  \/ create_agent
  \/ list_agents
  \/ delete_agent
  \/ config_drift

DriftSpec == Init /\ [][NextDrift]_vars

\* The registry over a store whose writes can fail.
NextFault ==
  \/ create_agent
  \/ list_agents
  \/ list_agents_set_raises
  \/ delete_agent
  \/ config_drift

FaultSpec == Init /\ [][NextFault]_vars

\* Agents read back while another writer changes their creation times.
NextGet ==
  \/ create_agent
  \/ get_agent
  \/ delete_agent
  \/ created_at_drift

GetSpec == Init /\ [][NextGet]_vars

\* The registry before initialize: no persistence store has been built.
InitBoot ==
  /\ backend = "unset"
  /\ persistence_store = << >>
  /\ in_memory_store = << >>
  /\ agent_ids = << >>
  /\ generator = Idle
  /\ response = [ op |-> "init", error |-> "none" ]
  /\ issued = [ agents |-> { }, sessions |-> { }, turns |-> { } ]
  /\ configs = << >>
  /\ deleted = { }
  /\ turn_log = << >>
  /\ in_flight = { }

\* The registry from its construction on; the calls are made once a store of
\* a modelled class is in place.
NextBoot ==
  \/ initialize
  \/ backend \in Backends /\ create_agent
  \/ backend \in Backends /\ get_agent
  \/ backend \in Backends /\ list_agents
  \/ backend \in Backends /\ delete_agent

BootSpec == InitBoot /\ [][NextBoot]_vars

\* A registry over a store whose operations suspend the caller.
InitAsync == Init /\ Suspends(backend)

\* create_agent calls in flight at the same time, and the agents read back.
NextCreateRace ==
  \/ create_agent_begin
  \/ create_agent_config
  \/ create_agent_created_at
  \/ create_agent_index
  \/ in_flight = { } /\ get_agent

CreateRaceSpec == InitAsync /\ [][NextCreateRace]_vars

\* The registry after initialize and one create_agent per identifier up to
\* n, in the order of the identifiers
RECURSIVE CreatedAgents(_, _, _)
CreatedAgents(kind, n, agent_configs) ==
  IF n = 0 THEN [ store |-> << >>, agent_ids |-> << >> ]
  ELSE LET before == CreatedAgents(kind, n - 1, agent_configs)
       IN  CreateAgentEffect(kind, before.store, before.agent_ids, IdString(n),
                             agent_configs[n], 1)

\* Every agent identifier has been created.
InitAgents ==
  /\ backend \in Backends
  /\ \E agent_configs \in [ 1..MaxAgents -> AgentConfigs ] :
       /\ persistence_store = CreatedAgents(backend, MaxAgents, agent_configs).store
       /\ agent_ids = CreatedAgents(backend, MaxAgents, agent_configs).agent_ids
       /\ configs = [ n \in 1..MaxAgents |->
                        [ agent_id |-> IdString(n), agent_config |-> agent_configs[n] ] ]
  /\ in_memory_store = << >>
  /\ generator = Idle
  /\ response = [ op |-> "init", error |-> "none" ]
  /\ issued = [ agents |-> AgentIdSet, sessions |-> { }, turns |-> { } ]
  /\ deleted = { }
  /\ turn_log = << >>
  /\ in_flight = { }

\* list_agents suspended at its reads while delete_agent runs to its end.
NextListRace ==
  \/ list_agents_begin
  \/ list_agents_config
  \/ list_agents_created_at
  \/ delete_agent

InitListRace == InitAgents /\ Suspends(backend)

ListRaceSpec == InitListRace /\ [][NextListRace]_vars

\* create_agent calls that the process can stop in the middle of, and the
\* registry read once no call is in flight.
NextCrash ==
  \/ create_agent_begin
  \/ create_agent_config
  \/ create_agent_created_at
  \/ create_agent_index
  \/ restart
  \/ in_flight = { } /\ get_agent
  \/ in_flight = { } /\ list_agents

CrashSpec == InitAsync /\ [][NextCrash]_vars

\* Sessions created and deleted, read back one by one and listed, for agents
\* that keep their sessions in the persistence store and agents that do not.
NextSessionLife ==
  \/ create_agent_session
  \/ delete_agents_session
  \/ get_agents_session
  \/ list_agent_sessions

SessionLifeSpec == InitAgents /\ [][NextSessionLife]_vars

\* A caller that streams a turn to its end
StreamedTurn ==
  \/ /\ generator = Idle
     /\ issued.turns # TurnIdSet
     /\ \E agent_id \in AgentIdSet, session_id \in SessionIdSet :
          create_agent_turn(agent_id, session_id, "True")
  \/ _create_agent_turn_streaming
  \/ turn_complete

\* Deletions among the sessions and turns of several agents.
NextFrame ==
  \/ generator = Idle /\ create_agent_session
  \/ StreamedTurn
  \/ generator = Idle /\ delete_agents_session
  \/ generator = Idle /\ delete_agent

FrameSpec == InitAgents /\ [][NextFrame]_vars

\* Sessions and turns recorded, records damaged, and the listings read.
NextList ==
  \/ generator = Idle /\ create_agent_session
  \/ StreamedTurn
  \/ generator = Idle /\ record_drift
  \/ generator = Idle /\ list_agents
  \/ generator = Idle /\ list_agent_sessions

\* Both agents keep their sessions in the persistence store.
InitList ==
  /\ InitAgents
  /\ \A i \in 1..Len(configs) : configs[i].agent_config.enable_session_persistence

ListSpec == InitList /\ [][NextList]_vars

\* The first agent has been created and has one session.
InitSession ==
  /\ backend \in Backends
  /\ \E agent_config \in AgentConfigs :
       LET reg == CreateAgentEffect(backend, << >>, << >>, IdString(1), agent_config, 1)
           sessions == CreateSessionEffect(
                         StorageKind(backend, agent_config),
                         StorageOf(agent_config, reg.store, << >>),
                         IdString(1), IdString(1), "n", 1)
       IN  /\ persistence_store =
                IF agent_config.enable_session_persistence THEN sessions ELSE reg.store
           /\ in_memory_store =
                IF agent_config.enable_session_persistence THEN << >> ELSE sessions
           /\ agent_ids = reg.agent_ids
           /\ configs = << [ agent_id |-> IdString(1), agent_config |-> agent_config ] >>
  /\ generator = Idle
  /\ response = [ op |-> "init", error |-> "none" ]
  /\ issued = [ agents |-> { IdString(1) }, sessions |-> { IdString(1) }, turns |-> { } ]
  /\ deleted = { }
  /\ turn_log = << >>
  /\ in_flight = { }

\* The calls that start a generator, made by a caller that holds none; a new
\* turn is requested while an identifier is left for it
StreamingCalls ==
  /\ generator = Idle
  /\ \/ /\ issued.turns # TurnIdSet
        /\ \E agent_id \in AgentIdSet, session_id \in SessionIdSet :
             create_agent_turn(agent_id, session_id, "True")
     \/ \E agent_id \in AgentIdSet, session_id \in SessionIdSet, turn_id \in TurnIdSet :
          resume_agent_turn(agent_id, session_id, turn_id, "True")

\* The events of a generator
StreamEvents ==
  \/ _create_agent_turn_streaming
  \/ _continue_agent_turn_streaming
  \/ turn_step
  \/ turn_suspend
  \/ turn_complete

\* Turns recorded under a session, and the session read back.
NextSession ==
  \/ StreamingCalls
  \/ StreamEvents
  \/ generator = Idle /\ get_agents_session

SessionSpec == InitSession /\ [][NextSession]_vars

\* Calls in either mode
AnyCalls ==
  /\ generator = Idle
  /\ \/ \E agent_id \in AgentIdSet, session_id \in SessionIdSet, stream \in StreamArgs :
          /\ StreamTruthy(stream) => issued.turns # TurnIdSet
          /\ create_agent_turn(agent_id, session_id, stream)
     \/ \E agent_id \in AgentIdSet, session_id \in SessionIdSet, turn_id \in TurnIdSet,
           stream \in StreamArgs :
          resume_agent_turn(agent_id, session_id, turn_id, stream)

\* Turn requests in streaming and in non-streaming mode.
NextCalls ==
  \/ AnyCalls
  \/ StreamEvents

CallSpec == InitSession /\ [][NextCalls]_vars

\* The stored record of a turn of a created agent
AgentConfigOf(agent_id) ==
  configs[CHOOSE i \in 1..Len(configs) : configs[i].agent_id = agent_id].agent_config

StoredTurn(pstore, mstore, agent_id, session_id, turn_id) ==
  LoadTurn(StorageOf(AgentConfigOf(agent_id), pstore, mstore),
           agent_id, session_id, turn_id)

Awaiting(agent_id, session_id, turn_id) ==
  /\ \E i \in 1..Len(configs) : configs[i].agent_id = agent_id
  /\ StoredTurn(persistence_store, in_memory_store, agent_id, session_id, turn_id).ok
  /\ StoredTurn(persistence_store, in_memory_store, agent_id, session_id,
                turn_id).val.status = "A"

\* The caller supplies the tool result of a turn that is stored as awaiting
ResumeAwaiting ==
  /\ generator = Idle
  /\ \E i \in 1..Len(turn_log) :
       \E key \in { TurnKey(turn_log[i].agent_id, turn_log[i].session_id,
                            turn_log[i].turn_id) },
          storage \in { StorageOf(AgentConfigOf(turn_log[i].agent_id),
                                  persistence_store, in_memory_store) } :
         \E value \in { StoreGet(storage, key) } :
           /\ ~Falsy(value)
           /\ \E turn \in { TurnLoads(value) } :
                /\ turn.ok
                /\ turn.val.status = "A"
                /\ resume_agent_turn(turn_log[i].agent_id, turn_log[i].session_id,
                                     turn_log[i].turn_id, "True")

\* The turn protocol in streaming mode.
NextTurn ==
  \/ StreamingCalls
  \/ StreamEvents

\* The caller consumes every generator to its end and resumes the turns that
\* await a tool result.
TurnSpec ==
  InitSession /\ [][NextTurn]_vars /\ WF_vars(StreamEvents) /\ SF_vars(ResumeAwaiting)

(* ------------------------------- claims -------------------------------- *)
CreatedIds == { configs[i].agent_id : i \in 1..Len(configs) }

ListedIds(agents) == { agents[i].agent_id : i \in 1..Len(agents) }

\* C1: get_agent on the identifier create_agent returned, with no
\* delete_agent of it in between, succeeds and returns an agent with that
\* identifier and with the configuration create_agent was given.
RoundTrip ==
  \A i \in 1..Len(configs), now \in Times :
    configs[i].agent_id \notin deleted =>
      LET got == GetAgentResult(persistence_store, configs[i].agent_id, now)
      IN  /\ got.error = "none"
          /\ got.agent.agent_id = configs[i].agent_id
          /\ got.agent.agent_config = configs[i].agent_config

RoundTripWitness ==
  /\ response.op = "get_agent"
  /\ response.error = "none"
  /\ ~response.agent.agent_config.enable_session_persistence
  /\ \E i \in 1..Len(configs) :
       /\ configs[i].agent_id = response.agent_id
       /\ configs[i].agent_config = response.agent.agent_config

\* C2: with no deletion, list_agents returns exactly the created agents,
\* each once, on the in-memory backend and on the SQLite backend.
EnumerationComplete ==
  deleted = { } =>
    \A now \in Times :
      LET data == ListAgentsEffect(backend, persistence_store, agent_ids, now).data
      IN  /\ Len(data) = Len(configs)
          /\ \A i \in 1..Len(configs) :
               \E j \in 1..Len(data) :
                 /\ data[j].agent_id = configs[i].agent_id
                 /\ data[j].agent_config = configs[i].agent_config

EnumerationCompleteWitness ==
  /\ response.op = "list_agents"
  /\ deleted = { }
  /\ backend = "sqlite"
  /\ Len(response.data) >= 2
  /\ ListedIds(response.data) = CreatedIds

\* C3: once delete_agent(id) has completed, get_agent(id) raises the not
\* found error and list_agents does not return id.
DeletedStaysGone ==
  \A agent_id \in deleted, now \in Times :
    /\ GetAgentResult(persistence_store, agent_id, now).error = "ValueError"
    /\ agent_id \notin
         ListedIds(ListAgentsEffect(backend, persistence_store, agent_ids, now).data)

DeletedStaysGoneWitness ==
  /\ response.op = "list_agents"
  /\ Len(response.data) >= 1
  /\ \E agent_id \in deleted \cap CreatedIds :
       agent_id \notin ListedIds(response.data)

\* C10: delete_agent raises nothing; for an identifier that is not tracked
\* and has no stored key it leaves the store and the tracked list as they
\* are, and a second delete_agent(id) changes nothing the first has left.
DeleteIdempotent ==
  /\ response.op = "delete_agent" => response.error = "none"
  /\ \A agent_id \in AgentIdSet :
       LET once == DeleteAgentEffect(backend, persistence_store, agent_ids, agent_id)
       IN  /\ ( /\ ~InList(agent_ids, agent_id)
                /\ ~HasKey(persistence_store, AgentKey(agent_id))
                /\ ~HasKey(persistence_store, CreatedAtKey(agent_id)) )
               => ( /\ once.store = persistence_store
                    /\ once.agent_ids = agent_ids )
           /\ DeleteAgentEffect(backend, once.store, once.agent_ids, agent_id) = once

DeleteIdempotentWitness ==
  /\ response.op = "delete_agent"
  /\ ~response.tracked
  /\ response.agent_id \in CreatedIds
  /\ persistence_store # << >>

StoreKeys(store) == { store[i].key : i \in 1..Len(store) }

\* Every key outside the set named holds in the store after the step what it
\* held before it
OnlyChanges(keys) ==
  \A k \in (StoreKeys(persistence_store) \cup StoreKeys(persistence_store')) \ keys :
    StoreGet(persistence_store', k) = StoreGet(persistence_store, k)

\* C8: delete_agent(A) changes no key but agent:A, agent:A:created_at and
\* agent_ids: the session and turn keys of A and the keys of other agents
\* hold after the call what they held before it.
DeleteAgentFrame ==
  [][ response'.op = "delete_agent" =>
        /\ OnlyChanges({ AgentKey(response'.agent_id),
                         CreatedAtKey(response'.agent_id), AgentIdsKey })
        /\ in_memory_store' = in_memory_store ]_vars

DeleteAgentFrameWitness ==
  /\ response.op = "delete_agent"
  /\ response.tracked
  /\ \E session_id \in SessionIdSet, turn_id \in TurnIdSet :
       /\ HasKey(persistence_store, SessionKey(response.agent_id, session_id))
       /\ HasKey(persistence_store, TurnKey(response.agent_id, session_id, turn_id))
  /\ \E other \in AgentIdSet \ { response.agent_id }, session_id \in SessionIdSet :
       /\ HasKey(persistence_store, AgentKey(other))
       /\ HasKey(persistence_store, SessionKey(other, session_id))

\* C9: delete_agents_session(A, S) raises nothing and removes the key
\* session:A:S and no other: the turn keys of S, the keys of other sessions,
\* the agent keys and the tracked list are as before, also when session:A:S
\* was absent already.
DeleteSessionFrame ==
  [][ response'.op = "delete_agents_session" =>
        /\ response'.error = "none"
        /\ ~HasKey(persistence_store',
                   SessionKey(response'.agent_id, response'.session_id))
        /\ OnlyChanges({ SessionKey(response'.agent_id, response'.session_id) })
        /\ in_memory_store' = in_memory_store
        /\ agent_ids' = agent_ids ]_vars

DeleteSessionFrameWitness ==
  /\ response.op = "delete_agents_session"
  /\ ~HasKey(persistence_store, SessionKey(response.agent_id, response.session_id))
  /\ response.session_id \in issued.sessions
  /\ \E turn_id \in TurnIdSet :
       HasKey(persistence_store,
              TurnKey(response.agent_id, response.session_id, turn_id))
  /\ \E session_id \in SessionIdSet \ { response.session_id } :
       HasKey(persistence_store, SessionKey(response.agent_id, session_id))

\* The turns recorded under a session, in the order of their creation
LoggedTurnIds(agent_id, session_id) ==
  LET Under(t) == t.agent_id = agent_id /\ t.session_id = session_id
      logged == SelectSeq(turn_log, Under)
  IN  [ i \in 1..Len(logged) |-> logged[i].turn_id ]

TurnIds(turns) == [ i \in 1..Len(turns) |-> turns[i].turn_id ]

SeqRange(seq) == { seq[i] : i \in 1..Len(seq) }

\* C6: get_agents_session without a filter returns the turns recorded under
\* the session, all of them, in the order of their creation, on the
\* in-memory backend and on the SQLite backend.
TurnsInCreationOrder ==
  ( /\ response.op = "get_agents_session"
    /\ response.error = "none"
    /\ ~response.turn_ids.given )
  => TurnIds(response.session.turns)
       = LoggedTurnIds(response.agent_id, response.session_id)

\* C7: get_agents_session with a turn-id filter, an empty one included,
\* returns exactly the turns of the session whose identifier is in the
\* filter.
TurnIdFilterExact ==
  ( /\ response.op = "get_agents_session"
    /\ response.error = "none"
    /\ response.turn_ids.given )
  => /\ SeqRange(TurnIds(response.session.turns))
          = SeqRange(LoggedTurnIds(response.agent_id, response.session_id))
              \cap SeqRange(response.turn_ids.ids)
     /\ Len(response.session.turns)
          = Cardinality(SeqRange(TurnIds(response.session.turns)))

IsPrefix(s, t) == Len(s) <= Len(t) /\ SubSeq(t, 1, Len(s)) = s

\* A generator that ends with the turn awaiting leaves it stored as awaiting
SuspendedIsStored ==
  ( /\ response.op = "stream"
    /\ response.error = "none"
    /\ response.event = "turn_awaiting_input" )
  => Awaiting(response.agent_id, response.session_id, response.turn_id)

\* The generator of a resume request for an awaiting turn continues that turn:
\* no turn is created and the steps recorded so far are kept and extended
ResumeContinues ==
  ( /\ response.op = "resume_agent_turn"
    /\ response.error = "none"
    /\ Awaiting(response.agent_id, response.session_id, response.turn_id) )
  => LET old == StoredTurn(persistence_store, in_memory_store, response.agent_id,
                           response.session_id, response.turn_id)
         new == StoredTurn(persistence_store', in_memory_store', response.agent_id,
                           response.session_id, response.turn_id)
     IN  /\ response'.op = "stream"
         /\ response'.error = "none"
         /\ response'.event = "turn_resumed"
         /\ response'.turn_id = response.turn_id
         /\ turn_log' = turn_log
         /\ new.ok
         /\ new.val.status = "P"
         /\ IsPrefix(old.val.steps, new.val.steps)
         /\ Len(new.val.steps) > Len(old.val.steps)

\* No step removes or rewrites a recorded step of any turn
StepsKept ==
  \A i \in 1..Len(turn_log) :
    LET old == StoredTurn(persistence_store, in_memory_store, turn_log[i].agent_id,
                          turn_log[i].session_id, turn_log[i].turn_id)
        new == StoredTurn(persistence_store', in_memory_store', turn_log[i].agent_id,
                          turn_log[i].session_id, turn_log[i].turn_id)
    IN  old.ok => new.ok /\ IsPrefix(old.val.steps, new.val.steps)

\* The generator of a resume request for a turn that is not awaiting raises
\* and writes nothing
ResumeElseFails ==
  ( /\ response.op = "resume_agent_turn"
    /\ response.error = "none"
    /\ ~Awaiting(response.agent_id, response.session_id, response.turn_id) )
  => /\ response'.op = "stream"
     /\ response'.error # "none"
     /\ UNCHANGED << persistence_store, in_memory_store, turn_log >>

Resumed(turn_id) ==
  /\ response.op = "stream"
  /\ response.error = "none"
  /\ response.event = "turn_resumed"
  /\ response.turn_id = turn_id

Completed(turn_id) ==
  \E i \in 1..Len(turn_log) :
    /\ turn_log[i].turn_id = turn_id
    /\ LET turn == StoredTurn(persistence_store, in_memory_store, turn_log[i].agent_id,
                              turn_log[i].session_id, turn_id)
       IN  turn.ok /\ turn.val.status = "C"

NonStreamingUnsupported ==
  [][ ( /\ response'.op \in { "create_agent_turn", "resume_agent_turn" }
        /\ ~StreamTruthy(response'.stream) )
      => /\ response'.error = "NotImplementedError"
         /\ UNCHANGED << persistence_store, in_memory_store, agent_ids, generator >>
    ]_vars

NonStreamingUnsupportedWitness ==
  /\ response.op = "resume_agent_turn"
  /\ response.stream = "omitted"
  /\ response.error = "NotImplementedError"
  /\ response.agent_id \notin CreatedIds


InRange(store, start_key, end_key) ==
  LET Keep(r) == StrLe(start_key, r.key) /\ StrLt(r.key, end_key)
  IN  SelectSeq(store, Keep)

\* C11: on both backends, after any sets and deletes, range(start, end)
\* returns the values of exactly the stored keys k with start <= k < end, in
\* ascending order of the keys.
RangeContract ==
  response.op = "range"
  => response.values
       = RowValues(SortByKey(InRange(persistence_store, response.start_key,
                                     response.end_key)))

\* C12: on both backends, after any sets and deletes, list_keys(prefix)
\* returns exactly the stored keys that begin with the prefix, compared
\* character by character, whatever characters the prefix holds, and
\* list_keys without a prefix returns every stored key exactly once.
ListKeysContract ==
  response.op = "list_keys"
  => /\ SeqRange(response.keys)
          = IF response.prefix.given
            THEN { k \in StoreKeys(persistence_store) :
                     StartsWith(k, response.prefix.prefix) }
            ELSE StoreKeys(persistence_store)
     /\ Len(response.keys) = Cardinality(SeqRange(response.keys))

\* The agents whose configuration key holds a configuration that parses
ValidAgents(store) ==
  { agent_id \in AgentIdSet :
      /\ ~Falsy(StoreGet(store, AgentKey(agent_id)))
      /\ ConfigLoads(StoreGet(store, AgentKey(agent_id))).ok }

\* C13: on the in-memory backend list_agents returns every agent whose key
\* agent:{id} holds a valid configuration, each once, those missing from the
\* tracked list included; after the call the tracked list and the stored
\* agent_ids record hold every such identifier.
VolatileReconciliation ==
  ( response.op = "list_agents" /\ backend = "inmemory" )
  => /\ ValidAgents(persistence_store) \subseteq ListedIds(response.data)
     /\ \A agent_id \in ValidAgents(persistence_store) :
          Cardinality({ i \in 1..Len(response.data) :
                          response.data[i].agent_id = agent_id }) = 1
     /\ ValidAgents(persistence_store) \subseteq SeqRange(agent_ids)
     /\ LoadIds(StoreGet(persistence_store, AgentIdsKey)).ok
     /\ ValidAgents(persistence_store)
          \subseteq SeqRange(LoadIds(StoreGet(persistence_store, AgentIdsKey)).val)

VolatileReconciliationWitness ==
  /\ response.op = "list_agents"
  /\ backend = "inmemory"
  /\ response.healed # { }
  /\ response.healed \subseteq ListedIds(response.data)
  /\ Len(response.data) >= 2

\* The session and turn keys of the agent whose record does not load
CorruptRecords(store, agent_id) ==
  { k \in StoreKeys(store) :
      /\ StartsWith(k, SessionKey(agent_id, << >>))
      /\ \/ Count(k, ":") = 2 /\ ~SessionInfoLoads(StoreGet(store, k)).ok
         \/ Count(k, ":") = 3 /\ ~TurnLoads(StoreGet(store, k)).ok }

\* The agents list_agents reads the record of: the tracked ones, and on the
\* in-memory backend every agent of the store
ReadAgents ==
  IF backend = "inmemory" THEN AgentIdSet ELSE SeqRange(agent_ids)

\* C14: a stored agent record that does not parse does not make list_agents
\* fail, and a stored session or turn record that does not parse does not
\* make list_agent_sessions fail: the listing leaves that record out and
\* returns every well-formed record it returns without the damaged one.
GracefulEnumeration ==
  /\ response.op = "list_agents" =>
       /\ response.error = "none"
       /\ \A agent_id \in ValidAgents(persistence_store) \cap ReadAgents :
            \E i \in 1..Len(response.data) :
              /\ response.data[i].agent_id = agent_id
              /\ response.data[i].agent_config
                   = ConfigLoads(StoreGet(persistence_store, AgentKey(agent_id))).val
  /\ ( /\ response.op = "list_agent_sessions"
       /\ ~Falsy(StoreGet(persistence_store, AgentKey(response.agent_id))) ) =>
       /\ response.error = "none"
       /\ \A k \in CorruptRecords(persistence_store, response.agent_id) :
            response.data
              = ListSessionsResult(backend, StoreDelete(persistence_store, k),
                                   response.agent_id, response.plan).data

GracefulEnumerationWitness ==
  /\ response.op = "list_agent_sessions"
  /\ response.error = "none"
  /\ \E i \in 1..Len(response.data) :
       /\ response.data[i].turns # << >>
       /\ \E k \in CorruptRecords(persistence_store, response.agent_id) :
            StartsWith(k, TurnKey(response.agent_id, response.data[i].session_id, << >>))

\* C15: when the write of the agent_ids record at the end of list_agents
\* fails, list_agents still returns the listing it assembled.
BestEffortWriteBack ==
  ( response.op = "list_agents" /\ response.write = "raised" )
  => /\ response.error = "none"
     /\ response.data = response.assembled

\* The sessions of a listing without their order, the turns of each without
\* their order
Unordered(sessions) ==
  { [ session_id |-> sessions[i].session_id,
      session_name |-> sessions[i].session_name,
      started_at |-> sessions[i].started_at,
      turns |-> SeqRange(sessions[i].turns),
      count |-> Len(sessions[i].turns) ] : i \in 1..Len(sessions) }

\* C16: for an existing agent A and the same store contents the in-memory
\* path and the list-keys path of list_agent_sessions return the same
\* sessions with the same turns: one session per key session:A:S whose
\* record loads, each with exactly the turns that load from the keys
\* session:A:S:T of that session, and no turn created in another session or
\* for another agent.
SessionPartition ==
  ( response.op = "list_agent_sessions" /\ response.error = "none" ) =>
    LET A == response.agent_id
        Loaded(S) == /\ HasKey(persistence_store, SessionKey(A, S))
                     /\ SessionInfoLoads(StoreGet(persistence_store, SessionKey(A, S))).ok
        TurnsOf(S) == { T \in TurnIdSet :
                          /\ HasKey(persistence_store, TurnKey(A, S, T))
                          /\ TurnLoads(StoreGet(persistence_store, TurnKey(A, S, T))).ok }
    IN  /\ \A kind \in Backends, plan \in QueryPlans :
             LET other == ListSessionsResult(kind, persistence_store, A, plan)
             IN  /\ other.error = "none"
                 /\ Len(other.data) = Len(response.data)
                 /\ Unordered(other.data) = Unordered(response.data)
        /\ Len(response.data) = Cardinality({ S \in SessionIdSet : Loaded(S) })
        /\ \A S \in SessionIdSet : Loaded(S) =>
             \E i \in 1..Len(response.data) :
               /\ response.data[i].session_id = S
               /\ Len(response.data[i].turns) = Cardinality(TurnsOf(S))
               /\ SeqRange(response.data[i].turns)
                    = { TurnLoads(StoreGet(persistence_store, TurnKey(A, S, T))).val :
                          T \in TurnsOf(S) }
               /\ \A j \in 1..Len(response.data[i].turns) :
                    \E n \in 1..Len(turn_log) :
                      /\ turn_log[n].turn_id = response.data[i].turns[j].turn_id
                      /\ turn_log[n].agent_id = A
                      /\ turn_log[n].session_id = S

SessionPartitionWitness ==
  /\ response.op = "list_agent_sessions"
  /\ response.error = "none"
  /\ Len(response.data) = 2
  /\ Len(response.data[1].turns) = 1
  /\ Len(response.data[2].turns) = 1
  /\ response.data[1].turns # response.data[2].turns

FiveKinds == { "memory", "sqlite", "mongodb", "postgres", "redis" }

\* C18: building the store from the configuration yields an initialised
\* backend for each of the five kinds and raises, leaving no backend, for
\* every other type.
BackendSelection ==
  response.op = "initialize" =>
    IF response.type \in FiveKinds
    THEN /\ response.error = "none"
         /\ response.initialized
         /\ backend # "unset"
    ELSE /\ response.error = "ValueError"
         /\ backend = "unset"

\* C19: the agent_ids record a create_agent call writes is the tracked list
\* as it was when that call appended its identifier, whatever other calls
\* appended and wrote while its write was awaited; with two calls in flight
\* there is an interleaving after which both configuration keys exist and
\* the stored record names one of the two agents only.
IndexLostUpdate ==
  response.op = "create_agent" =>
    LET stored == LoadIds(StoreGet(persistence_store, AgentIdsKey))
    IN  /\ stored.ok
        /\ IsPrefix(stored.val, agent_ids)
        /\ stored.val # << >>
        /\ stored.val[Len(stored.val)] = response.agent_id

IndexLostUpdateWitness ==
  /\ in_flight = { }
  /\ response.op = "create_agent"
  /\ \E id1, id2 \in AgentIdSet :
       /\ id1 # id2
       /\ HasKey(persistence_store, AgentKey(id1))
       /\ HasKey(persistence_store, AgentKey(id2))
       /\ LoadIds(StoreGet(persistence_store, AgentIdsKey)).val = << id1 >>
       /\ agent_ids = << id1, id2 >>

\* C20: on a store that suspends its callers, a list_agents that is
\* suspended at a read while delete_agent(X) runs to its end still returns
\* every agent other than X that was in the tracked list from the start of
\* the call to its end.
ListDuringDelete ==
  response.op = "list_agents" =>
    \A agent_id \in SeqRange(response.start_ids) \cap SeqRange(agent_ids) :
      agent_id \in ListedIds(response.data)

\* C21: after the process stopped between two storage operations of
\* create_agent on a durable backend and a registry was initialised again
\* from the same store, list_agents returns every agent get_agent succeeds
\* for.
CrashTolerance ==
  ( response.op = "list_agents" /\ in_flight = { } ) =>
    \A agent_id \in AgentIdSet :
      ( \E now \in Times :
          GetAgentResult(persistence_store, agent_id, now).error = "none" )
      => agent_id \in ListedIds(response.data)

\* C22: once delete_agents_session(A, S) has completed get_agents_session(A, S)
\* raises the not-found error, whether the configuration of A enables session
\* persistence or not.
DeleteSessionTakesEffect ==
  response.op = "delete_agents_session" =>
    \A plan \in QueryPlans :
      GetSessionResult(backend, persistence_store, in_memory_store,
                       response.agent_id, response.session_id, NoList, plan).error
        = "ValueError"

\* C23: for an existing agent A, whether its configuration enables session
\* persistence or not, a session S is in the result of list_agent_sessions(A)
\* exactly when get_agents_session(A, S) succeeds.
ListAgreesWithGet ==
  ( response.op = "list_agent_sessions" /\ response.error = "none" ) =>
    \A session_id \in SessionIdSet :
      ( \E i \in 1..Len(response.data) : response.data[i].session_id = session_id )
      <=> GetSessionResult(backend, persistence_store, in_memory_store,
                           response.agent_id, session_id, NoList, response.plan).error
            = "none"

====
